---- MODULE Spec2Model ----
(***************************************************************************)
(* Model of GieGi.py: the spreadsheet loader (load_excel), the row search  *)
(* (search_tuples) and the search entry point (search_in_excel).           *)
(*                                                                         *)
(* Strings are sequences of one-character strings.  A cell is a record     *)
(* [t, s, n]: t = "nan" (missing), "str" (text s) or "int" (number n).     *)
(* A DataFrame is [index, columns, data]: the row labels, the column       *)
(* labels and one sequence of cells per row.  A workbook (the dict that    *)
(* pd.read_excel(sheet_name=None) returns) is [none, isDict, items]: None, *)
(* a dict with the ordered items [name, isFrame, df], or a value that is   *)
(* neither (a DataFrame passed where the dict is expected).                *)
(***************************************************************************)
EXTENDS Integers, Sequences, FiniteSets

VARIABLES file, search, ret

vars == <<file, search, ret>>

----------------------------------------------------------------------------
(* Bounds of the checked inputs *)

MaxLen == 3

MaxRows == 2

MaxSheets == 2

MaxPad == 9

----------------------------------------------------------------------------
(* Python string operations *)

Lower(c) == CASE c = "A" -> "a" [] c = "B" -> "b" [] OTHER -> c

StrLower(s) == [i \in 1..Len(s) |-> Lower(s[i])]

\* p in s
StrIn(p, s) == \E i \in 0..(Len(s) - Len(p)) : SubSeq(s, i + 1, i + Len(p)) = p

IsSpace(c) == c = " "

RECURSIVE LStrip(_)
LStrip(s) == IF s # <<>> /\ IsSpace(Head(s)) THEN LStrip(Tail(s)) ELSE s

RECURSIVE RStrip(_)
RStrip(s) ==
    IF s # <<>> /\ IsSpace(s[Len(s)]) THEN RStrip(SubSeq(s, 1, Len(s) - 1)) ELSE s

StrStrip(s) == RStrip(LStrip(s))

\* s.split(','): the pieces between the commas, at least one piece
RECURSIVE StrSplit(_, _)
StrSplit(s, cur) ==
    IF s = <<>> THEN <<cur>>
    ELSE IF Head(s) = "," THEN <<cur>> \o StrSplit(Tail(s), <<>>)
    ELSE StrSplit(Tail(s), Append(cur, Head(s)))

Digit(d) == <<"0", "1", "2", "3", "4", "5", "6", "7", "8", "9">>[d + 1]

RECURSIVE IntStr(_)
IntStr(n) == IF n < 10 THEN <<Digit(n)>> ELSE Append(IntStr(n \div 10), Digit(n % 10))

----------------------------------------------------------------------------
(* Cells and DataFrames *)

NaN == [t |-> "nan", s |-> <<>>, n |-> 0]

Text(s) == [t |-> "str", s |-> s, n |-> 0]

Num(n) == [t |-> "int", s |-> <<>>, n |-> n]

notna(val) == val.t # "nan"

\* str(val)
PyStr(val) ==
    CASE val.t = "str" -> val.s
      [] val.t = "int" -> IntStr(val.n)
      [] OTHER -> <<"n", "a", "n">>

\* the positions k..Len(mask), in order, at which mask is TRUE
RECURSIVE Positions(_, _)
Positions(mask, k) ==
    IF k > Len(mask) THEN <<>>
    ELSE (IF mask[k] THEN <<k>> ELSE <<>>) \o Positions(mask, k + 1)

Pick(seq, pos) == [i \in 1..Len(pos) |-> seq[pos[i]]]

\* variant: how='any' in place of how='all'
dropna_columns_any(df) ==
    LET mask == [j \in 1..Len(df.columns) |->
                        \A i \in 1..Len(df.data) : notna(df.data[i][j])]
        pos == Positions(mask, 1)
    IN [index |-> df.index,
        columns |-> Pick(df.columns, pos),
        data |-> [i \in 1..Len(df.data) |-> Pick(df.data[i], pos)]]

\* df.dropna(axis=1, how='all'): a new frame without the all-missing columns
dropna_columns(df) ==
    LET mask == [j \in 1..Len(df.columns) |->
                        \E i \in 1..Len(df.data) : notna(df.data[i][j])]
        pos == Positions(mask, 1)
    IN [index |-> df.index,
        columns |-> Pick(df.columns, pos),
        data |-> [i \in 1..Len(df.data) |-> Pick(df.data[i], pos)]]

\* variant: the surviving rows are renumbered (reset_index(drop=True))
dropna_rows_reset(df) ==
    LET mask == [i \in 1..Len(df.index) |->
                        \E j \in 1..Len(df.columns) : notna(df.data[i][j])]
        pos == Positions(mask, 1)
    IN [index |-> [i \in 1..Len(pos) |-> i - 1],
        columns |-> df.columns,
        data |-> Pick(df.data, pos)]

\* df.dropna(axis=0, how='all'): a new frame without the all-missing rows;
\* the surviving rows keep their index labels
dropna_rows(df) ==
    LET mask == [i \in 1..Len(df.index) |->
                        \E j \in 1..Len(df.columns) : notna(df.data[i][j])]
        pos == Positions(mask, 1)
    IN [index |-> Pick(df.index, pos),
        columns |-> df.columns,
        data |-> Pick(df.data, pos)]

\* df.empty
df_empty(df) == Len(df.index) = 0 \/ Len(df.columns) = 0

----------------------------------------------------------------------------
(* Values of the program *)

\* a string result; sections and tables are filled for HTML renderings only
Res(kind) == [kind |-> kind, sections |-> <<>>, tables |-> <<>>]

NoneBook == [none |-> TRUE, isDict |-> FALSE, items |-> <<>>]

Book(items) == [none |-> FALSE, isDict |-> TRUE, items |-> items]

\* a single DataFrame in the place of the dict, as pd.read_excel returns
\* without sheet_name=None
FrameAsBook == [none |-> FALSE, isDict |-> FALSE, items |-> <<>>]

\* bool(x) of a DataFrame raises ValueError (its truth value is ambiguous)
TruthRaises(sheets) == ~sheets.none /\ ~sheets.isDict

EmptyFrame == [index |-> <<>>, columns |-> <<>>, data |-> <<>>]

\* variant: 'if sheets is None' in place of 'if not sheets'
BookTruthy_none_only(sheets) == ~sheets.none

\* bool(x) of a workbook: None and the empty dict are falsy
BookTruthy(sheets) == ~sheets.none /\ sheets.items # <<>>

\* variant: the entry point does not test the search input
SearchTruthy_always(str) == TRUE

\* bool(x) of the search input: None and '' are falsy
SearchTruthy(str) == str.t = "int" \/ (str.t = "str" /\ str.s # <<>>)

TenthColumn == 9

----------------------------------------------------------------------------
(* search_tuples *)

\* variant: 'if val' in place of 'if val.strip()'
search_values_unstripped_test(s) ==
    LET pieces == StrSplit(s, <<>>)
        stripped == [i \in 1..Len(pieces) |-> StrStrip(pieces[i])]
    IN Pick(stripped, Positions([i \in 1..Len(pieces) |-> pieces[i] # <<>>], 1))

\* [val.strip() for val in search_tuple_str.split(',') if val.strip()]
search_values(s) ==
    LET pieces == StrSplit(s, <<>>)
        stripped == [i \in 1..Len(pieces) |-> StrStrip(pieces[i])]
    IN Pick(stripped, Positions([i \in 1..Len(pieces) |-> stripped[i] # <<>>], 1))

\* [str(val) if pd.notna(val) else '' for val in row]
row_values(row) == [j \in 1..Len(row) |-> IF notna(row[j]) THEN PyStr(row[j]) ELSE <<>>]

\* variant: any() over the search values in place of all()
found_all_any(row, values) ==
    \E k \in 1..Len(values) :
        \E j \in 1..Len(row) :
            StrIn(StrLower(values[k]), StrLower(row_values(row)[j]))

\* all(any(search_val.lower() in row_val.lower() ...) ...)
found_all(row, values) ==
    \A k \in 1..Len(values) :
        \E j \in 1..Len(row) :
            StrIn(StrLower(values[k]), StrLower(row_values(row)[j]))

\* the matching_rows list built by the loop over df.iterrows()
matching_rows(df, values, sheet_name, file_type) ==
    LET pos == Positions([i \in 1..Len(df.index) |-> found_all(df.data[i], values)], 1)
    IN [m \in 1..Len(pos) |->
            [row_index |-> df.index[pos[m]],
             values |-> df.data[pos[m]],
             sheet |-> sheet_name,
             file_type |-> file_type]]

\* variant: the cleaned frame is stored back into the dict
rebind_df_inplace(items, k, df) == [items EXCEPT ![k].df = df]

\* df = df.dropna(...) binds the loop's local name: the dict keeps its frame
rebind_df(items, k, df) == items

\* variant: the 'if matching_rows' test is missing
append_result_always(results, sheet_name, rows) ==
    Append(results, [sheet |-> sheet_name, rows |-> rows])

\* if matching_rows: results.append({'sheet': ..., 'rows': ...})
append_result(results, sheet_name, rows) ==
    IF rows # <<>> THEN Append(results, [sheet |-> sheet_name, rows |-> rows]) ELSE results

\* the loop over sheets.items(); acc = [exc, results, items].  A value that is
\* no DataFrame raises at its df.dropna, which ends the loop

RECURSIVE sheet_loop(_, _, _, _)
sheet_loop(acc, k, values, file_type) ==
    IF k > Len(acc.items) THEN acc
    ELSE IF ~acc.items[k].isFrame THEN [acc EXCEPT !.exc = TRUE]
    ELSE LET df == dropna_rows(dropna_columns(acc.items[k].df))
             items == rebind_df(acc.items, k, df)
             rows == IF df_empty(df) THEN <<>>
                     ELSE matching_rows(df, values, acc.items[k].name, file_type)
             results == append_result(acc.results, acc.items[k].name, rows)
         IN sheet_loop([exc |-> FALSE, results |-> results, items |-> items],
                       k + 1, values, file_type)

\* variant: always the last column
col_indices_last(num_cols) == <<0, num_cols - 1>>

\* col_indices, 0-based as in the code
col_indices(num_cols) ==
    <<0, IF num_cols >= TenthColumn + 1 THEN TenthColumn ELSE num_cols - 1>>

\* one block of the rendering: the label 'Row <row_index>' and the selected cells
render_row(row_info, i) ==
    LET idx == col_indices(Len(row_info.values))
    IN [row_index |-> row_info.row_index,
        i |-> i,
        cells |-> [c \in 1..Len(idx) |-> row_info.values[idx[c] + 1]]]

render_results(results, file_type) ==
    [kind |-> "html",
     sections |-> [r \in 1..Len(results) |->
                    [sheet |-> results[r].sheet,
                     blocks |-> [m \in 1..Len(results[r].rows) |->
                                    render_row(results[r].rows[m], m - 1)]]],
     tables |-> <<>>]

\* the except clause of search_tuples
search_except(sheets) == [out |-> Res("Error during search"), sheets |-> sheets]

\* the call search_tuples(sheets, str, file_type): its return value (out) and
\* the workbook object as the call leaves it (sheets).  The test 'if not sheets'
\* stands before the try: an exception it raises leaves the function
search_tuples_call(sheets, str, file_type) ==
    IF TruthRaises(sheets) THEN [out |-> Res("raise ValueError"), sheets |-> sheets]
    ELSE IF ~BookTruthy(sheets) THEN [out |-> Res("No data to search"), sheets |-> sheets]
    ELSE IF str.t # "str" THEN search_except(sheets)
    ELSE LET values == search_values(str.s)
             run == sheet_loop([exc |-> FALSE, results |-> <<>>, items |-> sheets.items],
                               1, values, file_type)
         IN IF values = <<>>
            THEN [out |-> Res("No search values provided"), sheets |-> sheets]
            ELSE IF run.exc THEN search_except(Book(run.items))
            ELSE IF run.results = <<>>
            THEN [out |-> Res("No rows found matching the search criteria"),
                  sheets |-> Book(run.items)]
            ELSE [out |-> render_results(run.results, file_type),
                  sheets |-> Book(run.items)]

search_tuples(sheets, str, file_type) == search_tuples_call(sheets, str, file_type).out

----------------------------------------------------------------------------
(* load_excel and search_in_excel *)

NoFile == [none |-> TRUE, readable |-> FALSE, book |-> <<>>]

\* the HTML of one sheet: the notice, or the table of the cleaned frame
sheet_html(item) ==
    LET df == dropna_rows(dropna_columns(item.df))
    IN IF df_empty(df)
       THEN [sheet |-> item.name, nodata |-> TRUE, columns |-> <<>>, data |-> <<>>]
       ELSE [sheet |-> item.name, nodata |-> FALSE, columns |-> df.columns, data |-> df.data]

\* the except clause of load_excel
load_except == [html |-> Res("Error loading file"), sheets |-> NoneBook]

\* load_excel(file, file_type): the pair (html, sheets)
load_excel(f, file_type) ==
    IF f.none \/ ~f.readable THEN load_except
    ELSE [html |-> [kind |-> "html", sections |-> <<>>,
                    tables |-> [k \in 1..Len(f.book) |-> sheet_html(f.book[k])]],
          sheets |-> Book(f.book)]

search_in_excel(f, str) ==
    LET loaded == IF ~f.none THEN load_excel(f, "Inventario")
                  ELSE [html |-> Res("No Inventario file uploaded"), sheets |-> NoneBook]
    IN IF BookTruthy(loaded.sheets) /\ SearchTruthy(str)
       THEN search_tuples(loaded.sheets, str, "Inventario")
       ELSE Res("")

\* the lambda bound to inventario_file.change
file_change(f) ==
    IF ~f.none THEN load_excel(f, "Inventario").html
    ELSE Res("No Inventario file uploaded")

----------------------------------------------------------------------------
(* The checked inputs *)

Chars == {"a", "B", ",", " "}

RECURSIVE SeqsUpTo(_, _)
SeqsUpTo(S, n) ==
    IF n = 0 THEN {<<>>}
    ELSE LET shorter == SeqsUpTo(S, n - 1)
         IN shorter \cup {Append(q, x) : q \in {r \in shorter : Len(r) = n - 1}, x \in S}

PyNone == [t |-> "none", s |-> <<>>]

PyInt == [t |-> "int", s |-> <<>>]

Str(s) == [t |-> "str", s |-> s]

\* the search inputs: every string over Chars up to MaxLen, None and a number
Searches == {Str(s) : s \in SeqsUpTo(Chars, MaxLen)} \cup {PyNone, PyInt}

\* a row is blank, or has its first column, its last column or both filled;
\* the columns between them hold their column number in every non-blank row
RowKinds == {"blank", "first", "last", "both"}

FrameCell(kind, j, width, ncore) ==
    IF kind = "blank" THEN NaN
    ELSE IF j = 1 THEN (IF kind \in {"first", "both"} THEN Text(<<"A">>) ELSE NaN)
    ELSE IF j = width /\ ncore = 2
         THEN (IF kind \in {"last", "both"} THEN Text(<<"b", "B">>) ELSE NaN)
    ELSE Num(j)

\* the frame read_excel builds: RangeIndex 0..n-1, one label per column
Frame(kinds, ncore, pad) ==
    [index |-> [i \in 1..Len(kinds) |-> i - 1],
     columns |-> [j \in 1..(ncore + pad) |-> j],
     data |-> [i \in 1..Len(kinds) |->
                [j \in 1..(ncore + pad) |-> FrameCell(kinds[i], j, ncore + pad, ncore)]]]

NarrowFrames == {Frame(kinds, ncore, 0) : kinds \in SeqsUpTo(RowKinds, MaxRows), ncore \in {1, 2}}

WideFrames ==
    {Frame(<<kind>>, ncore, pad) : kind \in RowKinds, ncore \in {1, 2}, pad \in {MaxPad - 1, MaxPad}}

SmallFrames == {Frame(kinds, 1, 0) : kinds \in {<<>>, <<"blank">>, <<"first">>}}

SheetName(k) == <<"S1", "S2", "S3", "S4">>[k]

Item(k, df) == [name |-> SheetName(k), isFrame |-> TRUE, df |-> df]

\* the workbooks: no sheet, one sheet, or up to MaxSheets small sheets
Books ==
    {<<>>}
    \cup {<<Item(1, df)>> : df \in NarrowFrames \cup WideFrames}
    \cup {[k \in 1..Len(q) |-> Item(k, q[k])] :
            q \in {r \in SeqsUpTo(SmallFrames, MaxSheets) : Len(r) >= 2}}

Files ==
    {NoFile, [none |-> FALSE, readable |-> FALSE, book |-> <<>>]}
    \cup {[none |-> FALSE, readable |-> TRUE, book |-> b] : b \in Books}

\* a dict whose second value is no DataFrame
MalformedBook ==
    Book(<<Item(1, Frame(<<"first">>, 1, 0)),
           [name |-> SheetName(2), isFrame |-> FALSE, df |-> EmptyFrame]>>)

\* what a caller passes to search_tuples: the workbook loaded from the file;
\* without a file, None, an empty dict, a malformed dict or a DataFrame
CallerBooks(f) ==
    IF f.none THEN {NoneBook, Book(<<>>), MalformedBook, FrameAsBook}
    ELSE {load_excel(f, "Inventario").sheets}

----------------------------------------------------------------------------
(* The state machine: one call per step, ret = the last call's outcome *)

Ret(op, out, arg, sheets) == [op |-> op, out |-> out, arg |-> arg, sheets |-> sheets]

Init ==
    /\ file \in Files
    /\ search \in Searches
    /\ ret = Ret("init", Res(""), NoneBook, NoneBook)

LoadExcel ==
    /\ ret' = LET l == load_excel(file, "Inventario")
              IN Ret("load_excel", l.html, NoneBook, l.sheets)
    /\ UNCHANGED <<file, search>>

FileChange ==
    /\ ret' = Ret("file_change", file_change(file), NoneBook, NoneBook)
    /\ UNCHANGED <<file, search>>

SearchTuples ==
    /\ \E b \in CallerBooks(file) :
          ret' = LET c == search_tuples_call(b, search, "Inventario")
                 IN Ret("search_tuples", c.out, b, c.sheets)
    /\ UNCHANGED <<file, search>>

SearchInExcel ==
    /\ ret' = Ret("search_in_excel", search_in_excel(file, search), NoneBook, NoneBook)
    /\ UNCHANGED <<file, search>>

Next == LoadExcel \/ FileChange \/ SearchTuples \/ SearchInExcel

Spec == Init /\ [][Next]_vars

----------------------------------------------------------------------------
(* Vocabulary of the properties, stated on the sheets as loaded *)

HasValue(row) == \E j \in 1..Len(row) : row[j].t # "nan"

\* the string form of a cell: '' for a missing cell
StrForm(cell) == IF cell.t = "nan" THEN <<>> ELSE PyStr(cell)

\* t is a case-insensitive substring of s
CIContains(t, s) ==
    \E off \in 0..(Len(s) - Len(t)) : \A i \in 1..Len(t) : Lower(t[i]) = Lower(s[off + i])

CellHas(cell, t) == CIContains(t, StrForm(cell))

RowMatches(row, T) == \A k \in 1..Len(T) : \E j \in 1..Len(row) : CellHas(row[j], T[k])

\* the members of a set of numbers in increasing order
RECURSIVE Sorted(_)
Sorted(S) ==
    IF S = {} THEN <<>>
    ELSE LET m == CHOOSE x \in S : \A y \in S : x <= y
         IN <<m>> \o Sorted(S \ {m})

KeptRows(df) == {i \in 1..Len(df.data) : HasValue(df.data[i])}

KeptCols(df) == {j \in 1..Len(df.columns) : \E i \in 1..Len(df.data) : df.data[i][j].t # "nan"}

\* the cells of the rows and columns that are not all missing, in their order
CleanedData(df) ==
    LET rows == Sorted(KeptRows(df))
        cols == Sorted(KeptCols(df))
    IN [a \in 1..Len(rows) |-> [b \in 1..Len(cols) |-> df.data[rows[a]][cols[b]]]]

\* a string of commas and whitespace only: its term list is empty
BlankOnly(s) == \A i \in 1..Len(s) : s[i] \in {",", " "}

WellFormed(book) == \A k \in 1..Len(book.items) : book.items[k].isFrame

\* search_tuples was called on a workbook of DataFrames with a non-empty term list
SearchCase ==
    /\ ret.op = "search_tuples"
    /\ ret.arg.isDict /\ ret.arg.items # <<>> /\ WellFormed(ret.arg)
    /\ search.t = "str" /\ ~BlankOnly(search.s)

Terms == search_values(search.s)

SectionsOf(name) == {x \in 1..Len(ret.out.sections) : ret.out.sections[x].sheet = name}

\* the row indices the rendering shows for a sheet, in the order shown
DisplayedIdx(name) ==
    IF SectionsOf(name) = {} THEN <<>>
    ELSE LET sec == ret.out.sections[CHOOSE x \in SectionsOf(name) : TRUE]
         IN [m \in 1..Len(sec.blocks) |-> sec.blocks[m].row_index]

Reported(name, label) == \E m \in 1..Len(DisplayedIdx(name)) : DisplayedIdx(name)[m] = label

\* the positions (from 1) in the loaded sheet of the rows that match
MatchingRows(df) == {i \in 1..Len(df.data) : RowMatches(df.data[i], Terms)}

----------------------------------------------------------------------------
(* C1 *)

WidgetGadgetBook == Book(<<Item(1, Frame(<<"first", "last">>, 2, 0))>>)

\* C1: a row is reported as a match if and only if every term is a
\* case-insensitive substring of the string form of at least one of its cells
\* (a missing cell has string form ''); a sheet with one row holding only the
\* first term and one holding only the second has no match for both terms.
C1_MatchIffAllTerms ==
    SearchCase =>
        /\ \A k \in 1..Len(ret.arg.items) :
              LET it == ret.arg.items[k]
              IN \A i \in 1..Len(it.df.data) :
                    Reported(it.name, i - 1) <=> RowMatches(it.df.data[i], Terms)
        /\ (ret.arg = WidgetGadgetBook /\ search.s = <<"a", ",", "B">>)
              => ret.out.kind = "No rows found matching the search criteria"

\* two terms; one reported row needs two cells for them, one row with a value
\* holds only some of the terms and is not reported
C1_Witness ==
    /\ SearchCase /\ Len(Terms) = 2 /\ ret.out.kind = "html"
    /\ LET df == ret.arg.items[1].df
       IN /\ \E i \in 1..Len(df.data) :
                /\ Reported("S1", i - 1)
                /\ ~\E j \in 1..Len(df.data[i]) : \A k \in 1..2 : CellHas(df.data[i][j], Terms[k])
          /\ \E i \in 1..Len(df.data) :
                /\ ~Reported("S1", i - 1)
                /\ \E j \in 1..Len(df.data[i]) : CellHas(df.data[i][j], Terms[1])

----------------------------------------------------------------------------
(* C2 *)

\* C2 (as stated): a search string with an empty term list gives 'No search
\* values provided' for every workbook value, None and the empty workbook included.
C2_Original ==
    (ret.op = "search_tuples" /\ search.t = "str" /\ BlankOnly(search.s)
        /\ (ret.arg.none \/ ret.arg.isDict))
        => ret.out.kind = "No search values provided"

\* C2 (amended): a search string with an empty term list gives 'No search values
\* provided' for every workbook that has at least one sheet, whatever the sheets hold.
C2_NoValuesOnNonEmptyBook ==
    (ret.op = "search_tuples" /\ search.t = "str" /\ BlankOnly(search.s)
        /\ ret.arg.isDict /\ ret.arg.items # <<>>)
        => ret.out.kind = "No search values provided"

C2_Witness ==
    /\ ret.op = "search_tuples" /\ search.s = <<" ", ",", " ">>
    /\ ret.arg.isDict /\ ret.arg.items # <<>>
    /\ \E i \in 1..Len(ret.arg.items[1].df.data) : HasValue(ret.arg.items[1].df.data[i])
    /\ ret.out.kind = "No search values provided"

----------------------------------------------------------------------------
(* C3 *)

\* C3: an absent (None) or empty workbook gives 'No data to search' for every
\* search input, those with an empty term list included.
C3_NoDataWithoutBook ==
    (ret.op = "search_tuples" /\ (ret.arg.none \/ (ret.arg.isDict /\ Len(ret.arg.items) = 0)))
        => ret.out.kind = "No data to search"

C3_Witness ==
    /\ ret.op = "search_tuples" /\ ret.arg.isDict /\ Len(ret.arg.items) = 0
    /\ search.t = "str" /\ search.s = <<" ", ",", " ">>
    /\ ret.out.kind = "No data to search"

----------------------------------------------------------------------------
(* C4 *)

ItemNamed(name) == ret.arg.items[CHOOSE k \in 1..Len(ret.arg.items) : ret.arg.items[k].name = name]

\* C4: every displayed block shows exactly two cells of its row: the one at
\* index 0 of the cleaned sheet and the one at index 9 if the cleaned sheet has
\* L >= 10 columns, at index L-1 otherwise (the same cell twice for L = 1).
C4_FirstAndTenthOrLast ==
    (SearchCase /\ ret.out.kind = "html") =>
        \A x \in 1..Len(ret.out.sections) :
            LET sec == ret.out.sections[x]
                df == ItemNamed(sec.sheet).df
                cols == Sorted(KeptCols(df))
                L == Len(cols)
            IN \A m \in 1..Len(sec.blocks) :
                  LET row == df.data[sec.blocks[m].row_index + 1]
                  IN /\ L >= 1
                     /\ sec.blocks[m].cells =
                           <<row[cols[1]], row[cols[IF L >= 10 THEN 10 ELSE L]]>>

\* a loaded sheet of 11 columns whose first column is all missing: the cleaned
\* sheet has 10 columns, index 0 is the loaded column 2, index 9 the loaded column 11
C4_Witness ==
    /\ SearchCase /\ ret.out.kind = "html"
    /\ Len(ret.arg.items[1].df.columns) = 11
    /\ Cardinality(KeptCols(ret.arg.items[1].df)) = 10
    /\ ret.out.sections[1].blocks[1].cells = <<Num(2), Text(<<"b", "B">>)>>

----------------------------------------------------------------------------
(* C5 *)

\* the position (from 0) of the loaded row i among the rows that survive cleaning
CleanedPosition(df, i) == Cardinality({r \in KeptRows(df) : r < i})

\* C5 (as stated): the displayed row index of a match is its position within
\* the cleaned sheet, i.e. its loaded position less the removed rows before it.
C5_Original ==
    SearchCase =>
        \A k \in 1..Len(ret.arg.items) :
            LET it == ret.arg.items[k]
                rows == Sorted(MatchingRows(it.df))
            IN DisplayedIdx(it.name) = [m \in 1..Len(rows) |-> CleanedPosition(it.df, rows[m])]

\* C5 (amended): the displayed row index of a match is the row's index in the
\* sheet as loaded (from 0); removing empty rows does not renumber the others.
C5_LoadedIndexShown ==
    SearchCase =>
        \A k \in 1..Len(ret.arg.items) :
            LET it == ret.arg.items[k]
                rows == Sorted(MatchingRows(it.df))
            IN DisplayedIdx(it.name) = [m \in 1..Len(rows) |-> rows[m] - 1]

\* a fully-empty row precedes the only matching row, which is shown as 'Row 1'
C5_Witness ==
    /\ SearchCase
    /\ Len(ret.arg.items[1].df.data) = 2
    /\ ~HasValue(ret.arg.items[1].df.data[1])
    /\ MatchingRows(ret.arg.items[1].df) = {2}
    /\ DisplayedIdx("S1") = <<1>>

----------------------------------------------------------------------------
(* C6 *)

\* the sheets, by position in the workbook, that have a matching row
MatchingSheets == {k \in 1..Len(ret.arg.items) : MatchingRows(ret.arg.items[k].df) # {}}

----------------------------------------------------------------------------
(* C7 *)

NoBlankRow(data) == \A i \in 1..Len(data) : HasValue(data[i])

NoBlankColumn(data) ==
    \A i \in 1..Len(data) : \A j \in 1..Len(data[i]) :
        \E r \in 1..Len(data) : data[r][j].t # "nan"

\* C7: cleaning a sheet leaves no all-missing row and no all-missing column and
\* keeps the other cells in their order, in load_excel and in search_tuples;
\* load_excel shows 'No data available after cleaning' instead of a table
\* exactly for a sheet left without rows or columns.
C7_CleanedSheet ==
    /\ (ret.op = "load_excel" /\ ret.out.kind = "html") =>
          /\ Len(ret.out.tables) = Len(file.book)
          /\ \A k \in 1..Len(file.book) :
                LET df == file.book[k].df
                    t == ret.out.tables[k]
                IN /\ t.sheet = file.book[k].name
                   /\ t.nodata <=> (KeptRows(df) = {} \/ KeptCols(df) = {})
                   /\ ~t.nodata =>
                        /\ t.data = CleanedData(df)
                        /\ NoBlankRow(t.data) /\ NoBlankColumn(t.data)
    /\ (SearchCase /\ ret.out.kind = "html") =>
          \A x \in 1..Len(ret.out.sections) :
              LET df == ItemNamed(ret.out.sections[x].sheet).df
                  all == dropna_rows(dropna_columns(df))
              IN /\ all.data = CleanedData(df)
                 /\ NoBlankRow(all.data) /\ NoBlankColumn(all.data)

\* a sheet with an all-missing row and an all-missing column, shown as a table
C7_Witness ==
    /\ ret.op = "load_excel" /\ ret.out.kind = "html" /\ Len(file.book) = 1
    /\ LET df == file.book[1].df
       IN /\ KeptRows(df) # {} /\ KeptRows(df) # 1..Len(df.data)
          /\ KeptCols(df) # 1..Len(df.columns)
    /\ ~ret.out.tables[1].nodata
    /\ Len(ret.out.tables[1].data) < Len(file.book[1].df.data)

----------------------------------------------------------------------------
(* C8 *)

ResultKinds ==
    {"", "html", "No data to search", "No search values provided",
     "No rows found matching the search criteria", "Error during search",
     "Error loading file", "No Inventario file uploaded"}

----------------------------------------------------------------------------
(* C9 *)

\* C9: search_tuples leaves the workbook it is given as it was, and load_excel
\* returns the sheets as read, uncleaned; the file is not changed by any call.
C9_WorkbookUnchanged ==
    /\ ret.op = "search_tuples" => ret.sheets = ret.arg
    /\ (ret.op = "load_excel" /\ ~file.none /\ file.readable) => ret.sheets = Book(file.book)

\* a search over a sheet that cleaning shortens
C9_Witness ==
    /\ SearchCase /\ ret.out.kind = "html"
    /\ KeptRows(ret.arg.items[1].df) # 1..Len(ret.arg.items[1].df.data)
    /\ ret.sheets = ret.arg

----------------------------------------------------------------------------
(* C10 *)

\* C10: search_in_excel returns '' when there is no file, the file fails to
\* load, the workbook has no sheets or the search input is empty or absent, and
\* the result of search_tuples on the loaded workbook otherwise; it never
\* returns the load error.
C10_EntryPoint ==
    ret.op = "search_in_excel" =>
        /\ IF file.none \/ ~file.readable \/ Len(file.book) = 0
              \/ search.t = "none" \/ (search.t = "str" /\ Len(search.s) = 0)
           THEN ret.out = Res("")
           ELSE ret.out = search_tuples(Book(file.book), search, "Inventario")
        /\ ret.out.kind # "Error loading file"

\* the file fails to load and a search string is given
C10_Witness ==
    /\ ret.op = "search_in_excel" /\ ~file.none /\ ~file.readable
    /\ search.t = "str" /\ search.s = <<"a">>
    /\ ret.out.kind = ""

====
